---------------------------- MODULE Spec2Model ----------------------------
(***************************************************************************)
(* A model of src/main.py: the Search Console exporter.  main()            *)
(* authenticates, the "Fetch Data" button runs fetch_gsc_data_parallel     *)
(* (date chunking, a pool of chunk fetches, concatenation, deduplication,  *)
(* the zero-click and keyword filters) and, in compare mode,               *)
(* fetch_compare_data_single and compare_data.                             *)
(*                                                                         *)
(* Dates are day numbers (Integers); a datetime.timedelta(days=n) is n.    *)
(* A string is a sequence of one-character strings.  A DataFrame is a      *)
(* record [cols, rows]: cols says whether the frame has its columns        *)
(* (pd.DataFrame() and a frame built from no rows have none), rows is the  *)
(* sequence of its rows in index order.                                    *)
(***************************************************************************)
EXTENDS Integers, Sequences, FiniteSets, TLC

VARIABLES
    pc,                  \* the position of the script run
    credentials,         \* st.session_state.credentials: "none" or "creds"
    token_fetch,         \* the token exchange of this run: "skipped", "ok", "error"
    start_date,          \* fetch_gsc_data_parallel's start_date
    end_date,            \* fetch_gsc_data_parallel's end_date
    filter_keywords,     \* the include list, a string
    filter_keywords_not, \* the exclude list, a string
    compare,             \* st.session_state.compare
    compare_report,      \* the frame fetch_compare_data_single returned
    current_start,       \* the chunk loop's current_start
    chunks,              \* the chunk list
    futures,             \* future_map in submission order: [dates, status, result]
    yielded,             \* the futures as_completed has handed to the loop
    results,             \* the results list
    errors,              \* the chunk_dates of the "[ERROR] Chunk ..." lines written
    df_all,              \* the frame fetch_gsc_data_parallel builds
    merged_report,       \* the frame compare_data returned
    outcome              \* how the run ended: a message shown or an exception

vars == <<pc, credentials, token_fetch, start_date, end_date,
          filter_keywords, filter_keywords_not, compare, compare_report,
          current_start, chunks, futures, yielded, results, errors, df_all,
          merged_report, outcome>>

\* the session and what the user entered
inputs == <<credentials, token_fetch, start_date, end_date,
            filter_keywords, filter_keywords_not, compare>>

\* the executor and what came out of it
pool == <<futures, yielded, errors>>

(***************************************************************************)
(* Program constants.                                                      *)
(***************************************************************************)
chunk_size_days == 30

max_workers == 4

FORCED_DIMENSIONS == <<"page", "query">>

(***************************************************************************)
(* Bounds of the model.                                                    *)
(***************************************************************************)
\* SpecChunker draws start_date from 0..MaxStart and end_date from 0..MaxDay.
MaxStart == 3

MaxDay == 65

\* Spec fetches date ranges of at most MaxChunks chunks.
MaxChunks == 3

\* SpecKeywords draws include and exclude lists of MaxFilterLen characters
\* in all.
MaxFilterLen == 3

\* SpecJoin draws frames of at most MaxJoinRows rows.
MaxJoinRows == 2

\* SpecMerge draws at most MaxFrames chunk frames of at most MaxFrameRows rows.
MaxFrames == 2

MaxFrameRows == 2

(***************************************************************************)
(* Sequences.                                                              *)
(***************************************************************************)
Range(s) == {s[i] : i \in 1..Len(s)}

SeqsUpTo(S, n) == UNION {[1..k -> S] : k \in 0..n}

(***************************************************************************)
(* DataFrames.                                                             *)
(***************************************************************************)
\* pd.DataFrame(): no columns, no rows.
EmptyDataFrame == [cols |-> FALSE, rows |-> <<>>]

\* Report.to_dataframe() of the rows the API returned: the columns come from
\* the rows, so a report of no rows gives a frame of no columns.
ToDataFrame(rows) == [cols |-> rows # <<>>, rows |-> rows]

\* DataFrame.empty
IsEmpty(df) == df.rows = <<>>

\* pd.concat(frames, ignore_index=True): the rows of the frames in list
\* order; the columns are the union of the frames' columns.
RECURSIVE ConcatRows(_)
ConcatRows(frames) ==
    IF frames = <<>> THEN <<>>
    ELSE Head(frames).rows \o ConcatRows(Tail(frames))

Concat(frames) ==
    [cols |-> \E i \in 1..Len(frames) : frames[i].cols,
     rows |-> ConcatRows(frames)]

\* A row as Report.to_dataframe() gives it: the two dimensions, then the
\* four metrics.
Row(page, query, clicks, impressions, ctr, position) ==
    [page |-> page, query |-> query, clicks |-> clicks,
     impressions |-> impressions, ctr |-> ctr, position |-> position]

DedupKeyDimensionsOnly(r) == <<r.page, r.query>>

\* subset=FORCED_DIMENSIONS + ["clicks","impressions","ctr","position"]
DedupKey(r) == <<r.page, r.query, r.clicks, r.impressions, r.ctr, r.position>>

DropDuplicatesOnDimensions(df) ==
    IF IsEmpty(df) THEN df
    ELSE LET keep == {i \in 1..Len(df.rows) :
                         \A j \in 1..(i - 1) :
                             DedupKeyDimensionsOnly(df.rows[j])
                                 # DedupKeyDimensionsOnly(df.rows[i])}
             RECURSIVE Kept(_)
             Kept(i) == IF i > Len(df.rows) THEN <<>>
                        ELSE IF i \in keep THEN <<df.rows[i]>> \o Kept(i + 1)
                        ELSE Kept(i + 1)
         IN  [cols |-> df.cols, rows |-> Kept(1)]

\* DataFrame.drop_duplicates(subset=..., inplace=True), keep="first": a row
\* stays when no earlier row has its key.  An empty frame is left as it is.
DropDuplicates(df) ==
    IF IsEmpty(df) THEN df
    ELSE LET keep == {i \in 1..Len(df.rows) :
                         \A j \in 1..(i - 1) : DedupKey(df.rows[j]) # DedupKey(df.rows[i])}
             RECURSIVE Kept(_)
             Kept(i) == IF i > Len(df.rows) THEN <<>>
                        ELSE IF i \in keep THEN <<df.rows[i]>> \o Kept(i + 1)
                        ELSE Kept(i + 1)
         IN  [cols |-> df.cols, rows |-> Kept(1)]

HasClicksOrNone(r) == r.clicks >= 0

\* the mask df_all["clicks"] > 0
HasClicks(r) == r.clicks > 0

\* df[df["clicks"] > 0]
ZeroClicksDropped(df) == [cols |-> df.cols, rows |-> SelectSeq(df.rows, HasClicks)]

(***************************************************************************)
(* Strings: str.split, str.strip, str.join, and the search of              *)
(* Series.str.contains(pat, case=False, na=False), whose pat is a regular  *)
(* expression.  Of the regular-expression syntax the model knows the       *)
(* literal characters, "." (any character) and "|" (alternation).          *)
(***************************************************************************)
\* the position of the first sep in s, or 0
RECURSIVE IndexFrom(_, _, _)
IndexFrom(s, sep, i) ==
    IF i > Len(s) THEN 0
    ELSE IF s[i] = sep THEN i
    ELSE IndexFrom(s, sep, i + 1)

\* s.split(sep): "" gives [""], "a," gives ["a", ""]
RECURSIVE Split(_, _)
Split(s, sep) ==
    LET i == IndexFrom(s, sep, 1)
    IN  IF i = 0 THEN <<s>>
        ELSE <<SubSeq(s, 1, i - 1)>> \o Split(SubSeq(s, i + 1, Len(s)), sep)

RECURSIVE LStrip(_)
LStrip(s) == IF s # <<>> /\ Head(s) = " " THEN LStrip(Tail(s)) ELSE s

RECURSIVE RStrip(_)
RStrip(s) ==
    IF s # <<>> /\ s[Len(s)] = " " THEN RStrip(SubSeq(s, 1, Len(s) - 1)) ELSE s

\* s.strip()
Strip(s) == RStrip(LStrip(s))

\* sep.join(parts)
RECURSIVE Join(_, _)
Join(parts, sep) ==
    IF parts = <<>> THEN <<>>
    ELSE IF Len(parts) = 1 THEN parts[1]
    ELSE parts[1] \o <<sep>> \o Join(Tail(parts), sep)

\* case folding of one character (re.IGNORECASE)
Lower(c) ==
    CASE c = "A" -> "a"
      [] c = "B" -> "b"
      [] OTHER -> c

\* the regular expression alt (no "|" in it) matches s at position p
MatchesAt(alt, s, p) ==
    /\ p + Len(alt) - 1 <= Len(s)
    /\ \A j \in 1..Len(alt) :
          \/ alt[j] = "."
          \/ Lower(alt[j]) = Lower(s[p + j - 1])

\* re.search(pat, s, re.IGNORECASE) finds a match
RegexSearch(pat, s) ==
    \E k \in 1..Len(Split(pat, "|")) :
        \E p \in 1..(Len(s) + 1) : MatchesAt(Split(pat, "|")[k], s, p)

\* keywords = [kw.strip() for kw in filter_keywords.split(",")]
Keywords(list) == [k \in 1..Len(Split(list, ",")) |-> Strip(Split(list, ",")[k])]

\* the mask df_all["query"].str.contains("|".join(keywords), case=False, na=False)
IncludeMask(list, r) == RegexSearch(Join(Keywords(list), "|"), r.query)

\* for kw_not in filter_keywords_not.split(","): kw_not = kw_not.strip();
\* df_all = df_all[~df_all["query"].str.contains(kw_not, case=False, na=False)]
RECURSIVE ExcludeAll(_, _)
ExcludeAll(df, kws) ==
    IF kws = <<>> THEN df
    ELSE ExcludeAll([cols |-> df.cols,
                     rows |-> SelectSeq(df.rows,
                                  LAMBDA r : ~RegexSearch(Strip(Head(kws)), r.query))],
                    Tail(kws))

(***************************************************************************)
(* 1) The chunk list (fetch_gsc_data_parallel, step 1).                    *)
(***************************************************************************)
ChunkEndNoMinusOne(cs, ed) ==
    IF cs + chunk_size_days > ed THEN ed ELSE cs + chunk_size_days

\* chunk_end of the chunk that starts at cs
ChunkEnd(cs, ed) ==
    IF cs + (chunk_size_days - 1) > ed THEN ed ELSE cs + (chunk_size_days - 1)

ChunkLoopDoWhile ==
    /\ pc = "chunking"
    /\ current_start <= end_date \/ chunks = <<>>
    /\ chunks' = Append(chunks, <<current_start, ChunkEnd(current_start, end_date)>>)
    /\ current_start' = ChunkEnd(current_start, end_date) + 1
    /\ UNCHANGED <<pc, inputs, compare_report, pool, results, df_all,
                   merged_report, outcome>>

\* one iteration of: while current_start <= end_date
ChunkLoop ==
    /\ pc = "chunking"
    /\ current_start <= end_date
    /\ chunks' = Append(chunks, <<current_start, ChunkEnd(current_start, end_date)>>)
    /\ current_start' = ChunkEnd(current_start, end_date) + 1
    /\ UNCHANGED <<pc, inputs, compare_report, pool, results, df_all,
                   merged_report, outcome>>

\* the loop ends; results = [] and the executor is entered
ChunkLoopExit ==
    /\ pc = "chunking"
    /\ current_start > end_date
    /\ pc' = "pool"
    /\ results' = <<>>
    /\ UNCHANGED <<inputs, compare_report, current_start, chunks, pool, df_all,
                   merged_report, outcome>>

(***************************************************************************)
(* 2) The thread pool (fetch_gsc_data_parallel, step 2).  A future is      *)
(* "queued" from executor.submit until a worker thread takes it, "running" *)
(* while _fetch_chunk_threaded runs, then "ok" (it returned a frame) or     *)
(* "failed" (it raised).                                                   *)
(***************************************************************************)
Settled(f) == f.status \in {"ok", "failed"}

Running == {i \in 1..Len(futures) : futures[i].status = "running"}

\* executor.submit(_fetch_chunk_threaded, ..., c[0], c[1]): (c[0], c[1]) for
\* the next chunk of the list
Submit ==
    /\ pc = "pool"
    /\ Len(futures) < Len(chunks)
    /\ futures' = Append(futures, [dates |-> chunks[Len(futures) + 1],
                                   status |-> "queued",
                                   result |-> EmptyDataFrame])
    /\ UNCHANGED <<pc, inputs, compare_report, current_start, chunks, yielded,
                   errors, results, df_all, merged_report, outcome>>

WorkerStartNoLimit(i) ==
    /\ futures[i].status = "queued"
    /\ \A j \in 1..(i - 1) : futures[j].status # "queued"
    /\ futures' = [futures EXCEPT ![i].status = "running"]
    /\ UNCHANGED <<pc, inputs, compare_report, current_start, chunks, yielded,
                   errors, results, df_all, merged_report, outcome>>

\* a worker thread takes the oldest queued work item; the pool has at most
\* max_workers threads
WorkerStart(i) ==
    /\ futures[i].status = "queued"
    /\ \A j \in 1..(i - 1) : futures[j].status # "queued"
    /\ Cardinality(Running) < max_workers
    /\ futures' = [futures EXCEPT ![i].status = "running"]
    /\ UNCHANGED <<pc, inputs, compare_report, current_start, chunks, yielded,
                   errors, results, df_all, merged_report, outcome>>

\* _fetch_chunk_threaded returns df_chunk
WorkerReturn(i, rows) ==
    /\ futures[i].status = "running"
    /\ credentials = "creds"
    /\ futures' = [futures EXCEPT ![i].status = "ok", ![i].result = ToDataFrame(rows)]
    /\ UNCHANGED <<pc, inputs, compare_report, current_start, chunks, yielded,
                   errors, results, df_all, merged_report, outcome>>

\* _fetch_chunk_threaded raises: no credentials to read, or the API call fails
WorkerRaise(i) ==
    /\ futures[i].status = "running"
    /\ futures' = [futures EXCEPT ![i].status = "failed"]
    /\ UNCHANGED <<pc, inputs, compare_report, current_start, chunks, yielded,
                   errors, results, df_all, merged_report, outcome>>

CollectNoExcept(i) ==
    /\ pc = "pool"
    /\ Len(futures) = Len(chunks)
    /\ i \notin yielded
    /\ Settled(futures[i])
    /\ yielded' = yielded \cup {i}
    /\ IF futures[i].status = "ok"
       THEN /\ results' = Append(results, futures[i].result)
            /\ UNCHANGED <<pc, outcome>>
       ELSE /\ pc' = "raised"
            /\ outcome' = "Exception"
            /\ UNCHANGED results
    /\ UNCHANGED <<inputs, compare_report, current_start, chunks, futures, errors,
                   df_all, merged_report>>

\* the body of: for future in as_completed(future_map), for a future that is
\* done and was not handed out yet
Collect(i) ==
    /\ pc = "pool"
    /\ Len(futures) = Len(chunks)
    /\ i \notin yielded
    /\ Settled(futures[i])
    /\ yielded' = yielded \cup {i}
    /\ IF futures[i].status = "ok"
       THEN /\ results' = Append(results, futures[i].result)
            /\ UNCHANGED errors
       ELSE /\ errors' = Append(errors, futures[i].dates)
            /\ UNCHANGED results
    /\ UNCHANGED <<pc, inputs, compare_report, current_start, chunks, futures,
                   df_all, merged_report, outcome>>

AsCompletedEndsNoWait ==
    /\ Len(futures) = Len(chunks)
    /\ \A i \in 1..Len(futures) : Settled(futures[i]) => i \in yielded

\* as_completed has handed out every future of future_map
AsCompletedEnds ==
    /\ Len(futures) = Len(chunks)
    /\ yielded = 1..Len(futures)

\* the loop and the with block end
ExitPool ==
    /\ pc = "pool"
    /\ AsCompletedEnds
    /\ pc' = "combine"
    /\ UNCHANGED <<inputs, compare_report, current_start, chunks, pool, results,
                   df_all, merged_report, outcome>>

(***************************************************************************)
(* 3) to 5) Combine, the zero-click filter, the keyword filters.           *)
(***************************************************************************)
\* if results: concat and drop_duplicates, else pd.DataFrame()
Combined(frames) ==
    IF frames # <<>> THEN DropDuplicates(Concat(frames)) ELSE EmptyDataFrame

Combine ==
    /\ pc = "combine"
    /\ df_all' = Combined(results)
    /\ pc' = "zero_clicks"
    /\ UNCHANGED <<inputs, compare_report, current_start, chunks, pool, results,
                   merged_report, outcome>>

ZeroClickFilter ==
    /\ pc = "zero_clicks"
    /\ df_all' = IF ~IsEmpty(df_all) THEN ZeroClicksDropped(df_all) ELSE df_all
    /\ pc' = "keywords"
    /\ UNCHANGED <<inputs, compare_report, current_start, chunks, pool, results,
                   merged_report, outcome>>

\* step 5 on a frame that is not empty
KeywordsApplied(df, include, exclude) ==
    LET included ==
            IF include # <<>>
            THEN [cols |-> df.cols,
                  rows |-> SelectSeq(df.rows, LAMBDA r : IncludeMask(include, r))]
            ELSE df
    IN  IF exclude # <<>> THEN ExcludeAll(included, Split(exclude, ",")) ELSE included

\* step 5 and return df_all
KeywordFilter ==
    /\ pc = "keywords"
    /\ df_all' = IF ~IsEmpty(df_all)
                 THEN KeywordsApplied(df_all, filter_keywords, filter_keywords_not)
                 ELSE df_all
    /\ pc' = "returned"
    /\ UNCHANGED <<inputs, compare_report, current_start, chunks, pool, results,
                   merged_report, outcome>>

(***************************************************************************)
(* compare_data and the end of show_fetch_data_button.                     *)
(***************************************************************************)
JoinedRowDiffReversed(l, r) ==
    [page |-> l.page, query |-> l.query,
     clicks_current |-> l.clicks, impressions_current |-> l.impressions,
     ctr_current |-> l.ctr, position_current |-> l.position,
     clicks_compare |-> r.clicks, impressions_compare |-> r.impressions,
     ctr_compare |-> r.ctr, position_compare |-> r.position,
     clicks_diff |-> r.clicks - l.clicks,
     impressions_diff |-> r.impressions - l.impressions]

\* a row of report.merge(compare_report, on=["page","query"],
\* suffixes=("_current","_compare")) with the two diff columns
JoinedRow(l, r) ==
    [page |-> l.page, query |-> l.query,
     clicks_current |-> l.clicks, impressions_current |-> l.impressions,
     ctr_current |-> l.ctr, position_current |-> l.position,
     clicks_compare |-> r.clicks, impressions_compare |-> r.impressions,
     ctr_compare |-> r.ctr, position_compare |-> r.position,
     clicks_diff |-> l.clicks - r.clicks,
     impressions_diff |-> l.impressions - r.impressions]

\* the rows of the inner join: for each row of the left frame, in order, one
\* row per row of the right frame with its (page, query)
RECURSIVE InnerJoinRows(_, _)
InnerJoinRows(left, right) ==
    IF left = <<>> THEN <<>>
    ELSE LET l == Head(left)
             matches == SelectSeq(right, LAMBDA r : r.page = l.page /\ r.query = l.query)
         IN  [i \in 1..Len(matches) |-> JoinedRow(l, matches[i])]
                 \o InnerJoinRows(Tail(left), right)

\* DataFrame.merge raises KeyError when a frame lacks a column named in on=
MergeRaises(report, other) == ~report.cols \/ ~other.cols

\* compare_data(report, compare_report), when the merge does not raise
CompareDataResult(report, other) ==
    [cols |-> TRUE, rows |-> InnerJoinRows(report.rows, other.rows)]

\* compare mode: merged_report = compare_data(report, compare_report), then
\* show_dataframe and download_csv_link
CompareData ==
    /\ pc = "returned"
    /\ compare
    /\ IF MergeRaises(df_all, compare_report)
       THEN /\ pc' = "raised"
            /\ outcome' = "KeyError"
            /\ UNCHANGED merged_report
       ELSE /\ pc' = "done"
            /\ outcome' = "merged_report_shown"
            /\ merged_report' = CompareDataResult(df_all, compare_report)
    /\ UNCHANGED <<inputs, compare_report, current_start, chunks, pool, results,
                   df_all>>

\* single date range: the frame or "No data found for the selected parameters."
ShowData ==
    /\ pc = "returned"
    /\ ~compare
    /\ pc' = "done"
    /\ outcome' = IF ~IsEmpty(df_all) THEN "data_shown" ELSE "no_data_found"
    /\ UNCHANGED <<inputs, compare_report, current_start, chunks, pool, results,
                   df_all, merged_report>>

(***************************************************************************)
(* main, the "Fetch Data" button and fetch_compare_data_single.            *)
(***************************************************************************)
NeedsSignInNever(c) == FALSE

\* if not st.session_state.get("credentials"): show the sign-in link, return
NeedsSignIn(c) == c = "none"

\* main up to the widgets: the token exchange when there is a code and the
\* session holds no credentials, then the sign-in gate
Main ==
    /\ pc = "main"
    /\ \E auth_code \in {"none", "code"}, exchanged \in BOOLEAN :
          LET attempt == auth_code # "none" /\ credentials = "none"
              creds == IF attempt /\ exchanged THEN "creds" ELSE credentials
          IN  /\ token_fetch' = IF ~attempt THEN "skipped"
                                ELSE IF exchanged THEN "ok" ELSE "error"
              /\ credentials' = creds
              /\ IF NeedsSignIn(creds)
                 THEN pc' = "signin" /\ outcome' = "sign_in_shown"
                 ELSE pc' = "ui" /\ UNCHANGED outcome
    /\ UNCHANGED <<start_date, end_date, filter_keywords, filter_keywords_not,
                   compare, compare_report, current_start, chunks, pool, results,
                   df_all, merged_report>>

\* the rows the API returns for a chunk or for the comparison period: the
\* second row has the key of the first and another position, the third has
\* no clicks
PipelineRows ==
    <<Row("p1", <<"a">>, 2, 5, 40, 1), Row("p1", <<"a">>, 2, 5, 40, 2),
      Row("p2", <<"B", "a">>, 0, 3, 0, 4), Row("p2", <<"B", "a">>, 1, 3, 33, 4)>>

ChunkReplies ==
    {<<>>, <<PipelineRows[1]>>, <<PipelineRows[2], PipelineRows[1]>>,
     <<PipelineRows[3], PipelineRows[4]>>}

CompareReplies ==
    {<<>>, <<PipelineRows[3]>>, <<PipelineRows[1]>>,
     <<PipelineRows[4], PipelineRows[1]>>}

\* end dates that give 0 (start > end) to MaxChunks chunks from day 0
PipelineEndDates ==
    {0 - 1} \cup {n * chunk_size_days + 14 : n \in 0..(MaxChunks - 1)}

PipelineFilters == {<<>>, <<"b">>}

\* st.button("Fetch Data") is pressed; in single mode fetch_gsc_data_parallel
\* is entered (chunks = [], current_start = start_date)
ClickFetch ==
    /\ pc = "ui"
    /\ \E e \in PipelineEndDates, inc \in PipelineFilters, exc \in PipelineFilters,
          cmp \in BOOLEAN :
          /\ start_date' = 0
          /\ end_date' = e
          /\ filter_keywords' = inc
          /\ filter_keywords_not' = exc
          /\ compare' = cmp
          /\ pc' = IF cmp THEN "compare_fetch" ELSE "chunking"
    /\ current_start' = 0
    /\ chunks' = <<>>
    /\ UNCHANGED <<credentials, token_fetch, compare_report, pool,
                   results, df_all, merged_report, outcome>>

\* the try block of fetch_compare_data_single on the frame of the API's rows:
\* df["clicks"] of a frame without columns raises KeyError, which the except
\* turns into pd.DataFrame()
CompareFetched(df) == IF df.cols THEN ZeroClicksDropped(df) ELSE EmptyDataFrame

\* fetch_compare_data_single and the test of compare_report.empty; with
\* comparison rows fetch_gsc_data_parallel is entered
FetchCompare ==
    /\ pc = "compare_fetch"
    /\ \E fetched \in BOOLEAN, rows \in CompareReplies :
          LET df == IF fetched THEN CompareFetched(ToDataFrame(rows))
                    ELSE EmptyDataFrame
          IN  /\ compare_report' = df
              /\ IF IsEmpty(df)
                 THEN pc' = "done" /\ outcome' = "no_comparison_data"
                 ELSE pc' = "chunking" /\ UNCHANGED outcome
    /\ UNCHANGED <<inputs, current_start, chunks, pool, results, df_all,
                   merged_report>>

\* the script runs again in the same session: st.session_state keeps the
\* credentials, the locals are gone
Rerun ==
    /\ pc \in {"signin", "done", "raised"}
    /\ pc' = "main"
    /\ token_fetch' = "skipped"
    /\ start_date' = 0
    /\ end_date' = 0
    /\ filter_keywords' = <<>>
    /\ filter_keywords_not' = <<>>
    /\ compare' = FALSE
    /\ compare_report' = EmptyDataFrame
    /\ current_start' = 0
    /\ chunks' = <<>>
    /\ futures' = <<>>
    /\ yielded' = {}
    /\ results' = <<>>
    /\ errors' = <<>>
    /\ df_all' = EmptyDataFrame
    /\ merged_report' = EmptyDataFrame
    /\ outcome' = "none"
    /\ UNCHANGED credentials

(***************************************************************************)
(* Initial conditions shared by the specifications.                        *)
(***************************************************************************)
\* a session that holds credentials
SignedIn ==
    /\ credentials = "creds"
    /\ token_fetch = "ok"

\* nothing shown yet
NoOutput ==
    /\ merged_report = EmptyDataFrame
    /\ outcome = "none"

\* fetch_gsc_data_parallel at step 3, after a run over Len(frames) chunks from
\* day 0 on, each of which returned its frame, collected in chunk order
SettledPool(frames) ==
    /\ start_date = 0
    /\ end_date = Len(frames) * chunk_size_days - 1
    /\ current_start = Len(frames) * chunk_size_days
    /\ chunks = [i \in 1..Len(frames) |->
                    <<(i - 1) * chunk_size_days, i * chunk_size_days - 1>>]
    /\ futures = [i \in 1..Len(frames) |->
                    [dates |-> <<(i - 1) * chunk_size_days, i * chunk_size_days - 1>>,
                     status |-> "ok", result |-> frames[i]]]
    /\ yielded = 1..Len(frames)
    /\ results = frames
    /\ errors = <<>>

(***************************************************************************)
(* Spec: a session from its first script run on.                           *)
(***************************************************************************)
Init ==
    /\ pc = "main"
    /\ credentials = "none"
    /\ token_fetch = "skipped"
    /\ start_date = 0
    /\ end_date = 0
    /\ filter_keywords = <<>>
    /\ filter_keywords_not = <<>>
    /\ compare = FALSE
    /\ compare_report = EmptyDataFrame
    /\ current_start = 0
    /\ chunks = <<>>
    /\ futures = <<>>
    /\ yielded = {}
    /\ results = <<>>
    /\ errors = <<>>
    /\ df_all = EmptyDataFrame
    /\ NoOutput

Workers ==
    \E i \in 1..Len(futures) :
        \/ WorkerStart(i)
        \/ \E rows \in ChunkReplies : WorkerReturn(i, rows)
        \/ WorkerRaise(i)

Collector == \E i \in 1..Len(futures) : Collect(i)

Next ==
    \/ Main
    \/ ClickFetch
    \/ FetchCompare
    \/ ChunkLoop
    \/ ChunkLoopExit
    \/ Submit
    \/ Workers
    \/ Collector
    \/ ExitPool
    \/ Combine
    \/ ZeroClickFilter
    \/ KeywordFilter
    \/ CompareData
    \/ ShowData
    \/ Rerun

Spec == Init /\ [][Next]_vars

(***************************************************************************)
(* SpecChunker: the chunk loop on every (start_date, end_date) of the      *)
(* bounds.                                                                 *)
(***************************************************************************)
InitChunker ==
    \E s \in 0..MaxStart, e \in 0..MaxDay :
        /\ pc = "chunking"
        /\ SignedIn
        /\ start_date = s
        /\ end_date = e
        /\ filter_keywords = <<>>
        /\ filter_keywords_not = <<>>
        /\ compare = FALSE
        /\ compare_report = EmptyDataFrame
        /\ current_start = s
        /\ chunks = <<>>
        /\ futures = <<>>
        /\ yielded = {}
        /\ results = <<>>
        /\ errors = <<>>
        /\ df_all = EmptyDataFrame
        /\ NoOutput

NextChunker == ChunkLoop \/ ChunkLoopExit

SpecChunker == InitChunker /\ [][NextChunker]_vars

\* the span of a chunk in days
Days(c) == c[2] - c[1] + 1

\* C1: for start <= end the chunk list is an ordered sequence of sub-ranges:
\* the first starts at start, the last ends at end, each chunk starts one day
\* after the previous one ends, and none spans more than 30 days;
\* day 0..45 (2024-01-01..2024-02-15) gives exactly [0,29] and [30,45].
C1_ChunksCoverRange ==
    (pc = "pool" /\ start_date <= end_date) =>
        /\ Len(chunks) >= 1
        /\ chunks[1][1] = start_date
        /\ chunks[Len(chunks)][2] = end_date
        /\ \A i \in 1..Len(chunks) :
              /\ chunks[i][1] <= chunks[i][2]
              /\ Days(chunks[i]) <= 30
        /\ \A i \in 1..(Len(chunks) - 1) : chunks[i + 1][1] = chunks[i][2] + 1
        /\ (start_date = 0 /\ end_date = 45) => chunks = << <<0, 29>>, <<30, 45>> >>

C1_Witness ==
    /\ pc = "pool"
    /\ start_date = 0
    /\ end_date = 45
    /\ Len(chunks) = 2

(***************************************************************************)
(* SpecMerge: steps 3 to 5 on every results list of the bounds.            *)
(***************************************************************************)
qa == <<"a">>

qb == <<"B", "a">>

\* the second row differs from the first in its position alone; the third
\* has no clicks
MergeRows ==
    {Row("p1", qa, 2, 5, 40, 1), Row("p1", qa, 2, 5, 40, 2), Row("p2", qb, 0, 3, 0, 4)}

InitMerge ==
    \E frames \in SeqsUpTo({ToDataFrame(rows) : rows \in SeqsUpTo(MergeRows, MaxFrameRows)},
                           MaxFrames) :
        /\ pc = "combine"
        /\ SignedIn
        /\ SettledPool(frames)
        /\ filter_keywords = <<>>
        /\ filter_keywords_not = <<>>
        /\ compare = FALSE
        /\ compare_report = EmptyDataFrame
        /\ df_all = EmptyDataFrame
        /\ NoOutput

NextMerge == Combine \/ ZeroClickFilter \/ KeywordFilter

SpecMerge == InitMerge /\ [][NextMerge]_vars

\* how often row r occurs in the rows
Count(rows, r) == Cardinality({i \in 1..Len(rows) : rows[i] = r})

\* C5: after the deduplication step a row that occurs in the chunk results
\* (once, several times in one chunk, or in several chunks) is in the table
\* exactly once: equal rows are merged and a row that differs from all others
\* in one of the six fields stays.
C5_DedupKeepsEachRowOnce ==
    pc = "zero_clicks" =>
        \A r \in MergeRows :
            Count(df_all.rows, r) = IF Count(ConcatRows(results), r) > 0 THEN 1 ELSE 0

C5_Witness ==
    /\ pc = "zero_clicks"
    /\ Len(results) = 2
    /\ \E r \in MergeRows :
          /\ Count(results[1].rows, r) = 2
          /\ Count(results[2].rows, r) = 1
          /\ \E q \in MergeRows : q # r /\ Count(results[2].rows, q) = 1
    /\ Len(df_all.rows) = 2

(***************************************************************************)
(* SpecKeywords: step 5 on every include and exclude list of the bounds.   *)
(***************************************************************************)
FilterChars == {"a", "B", ".", ",", " "}

\* one row per query, each with clicks
QueryFrame(queries) ==
    [cols |-> TRUE,
     rows |-> [i \in 1..Len(queries) |-> Row(<<"p", i>>, queries[i], 1, 2, 50, 1)]]

KeywordQueries == << <<"a">>, <<"a", "B">>, <<"b">>, <<"B", "a", "a">> >>

red == <<"r", "e", "d">>

hat == <<"h", "a", "t">>

red_shoes == <<"r", "e", "d", " ", "s", "h", "o", "e", "s">>

blue_shoes == <<"b", "l", "u", "e", " ", "s", "h", "o", "e", "s">>

red_hat == <<"r", "e", "d", " ", "h", "a", "t">>

ExampleQueries == <<red_shoes, blue_shoes, red_hat>>

\* the (include, exclude) pairs: MaxFilterLen characters split between the
\* two lists, and the two examples
FilterPairs ==
    UNION {{<<SubSeq(s, 1, k), SubSeq(s, k + 1, Len(s))>> : k \in 0..Len(s)} :
              s \in SeqsUpTo(FilterChars, MaxFilterLen)}
        \cup {<<red, <<>> >>, <<red, hat>>}

InitKeywords ==
    \E f \in FilterPairs, q \in {KeywordQueries, ExampleQueries} :
        /\ pc = "keywords"
        /\ SignedIn
        /\ SettledPool(<<QueryFrame(q)>>)
        /\ filter_keywords = f[1]
        /\ filter_keywords_not = f[2]
        /\ compare = FALSE
        /\ compare_report = EmptyDataFrame
        /\ df_all = QueryFrame(q)
        /\ NoOutput

NextKeywords == KeywordFilter

SpecKeywords == InitKeywords /\ [][NextKeywords]_vars

\* kw occurs in s, letter case ignored
ContainsIgnoreCase(s, kw) ==
    \E p \in 1..(Len(s) + 1) :
        /\ p + Len(kw) - 1 <= Len(s)
        /\ \A j \in 1..Len(kw) : Lower(kw[j]) = Lower(s[p + j - 1])

\* the row the claim keeps
KeptByContainment(q, include, exclude) ==
    /\ include # <<>> =>
          \E k \in 1..Len(Keywords(include)) : ContainsIgnoreCase(q, Keywords(include)[k])
    /\ exclude # <<>> =>
          \A k \in 1..Len(Keywords(exclude)) : ~ContainsIgnoreCase(q, Keywords(exclude)[k])

\* C7: the keyword step keeps a row if and only if its query contains, letter
\* case ignored, one of the include keywords (when an include list is given)
\* and none of the exclude keywords (when an exclude list is given).
C7_KeptIffContains ==
    [][pc = "keywords" =>
          \A i \in 1..Len(df_all.rows) :
              (df_all.rows[i] \in Range(df_all'.rows))
                  <=> KeptByContainment(df_all.rows[i].query, filter_keywords,
                                        filter_keywords_not)]_vars

(***************************************************************************)
(* SpecJoin: compare mode from step 3 on, on every current-period chunk    *)
(* frame and comparison frame of the bounds.                               *)
(***************************************************************************)
JoinRows ==
    {Row("p1", qa, 10, 100, 10, 1), Row("p1", qa, 4, 40, 10, 2),
     Row("p2", qb, 5, 50, 10, 3), Row("p2", qb, 0, 7, 0, 9)}

InitJoin ==
    \E frames \in {<<>>} \cup {<<ToDataFrame(rows)>> : rows \in SeqsUpTo(JoinRows, MaxJoinRows)},
       other \in SeqsUpTo({r \in JoinRows : HasClicks(r)}, MaxJoinRows) \ {<<>>} :
        /\ pc = "combine"
        /\ SignedIn
        /\ SettledPool(frames)
        /\ filter_keywords = <<>>
        /\ filter_keywords_not = <<>>
        /\ compare = TRUE
        /\ compare_report = ZeroClicksDropped(ToDataFrame(other))
        /\ df_all = EmptyDataFrame
        /\ NoOutput

NextJoin == Combine \/ ZeroClickFilter \/ KeywordFilter \/ CompareData

SpecJoin == InitJoin /\ [][NextJoin]_vars

\* the (page, query) of a row
JoinKey(r) == <<r.page, r.query>>

JoinKeys == {JoinKey(r) : r \in JoinRows}

\* C8: compare_data is an inner join on (page, query): its output has a row
\* for a key if and only if the key occurs in the current and in the comparison
\* table, each output row pairs a current row with a comparison row of its key,
\* clicks_diff = clicks_current - clicks_compare and impressions_diff =
\* impressions_current - impressions_compare; current (p1,q1,10,100) with
\* compare (p1,q1,4,40) gives clicks_diff 6 and impressions_diff 60.
C8_InnerJoinWithDiffs ==
    (pc = "done" /\ outcome = "merged_report_shown") =>
        /\ \A k \in JoinKeys :
              (\E m \in Range(merged_report.rows) : JoinKey(m) = k)
                  <=> /\ \E l \in Range(df_all.rows) : JoinKey(l) = k
                      /\ \E r \in Range(compare_report.rows) : JoinKey(r) = k
        /\ \A m \in Range(merged_report.rows) :
              /\ m.clicks_diff = m.clicks_current - m.clicks_compare
              /\ m.impressions_diff = m.impressions_current - m.impressions_compare
              /\ \E l \in Range(df_all.rows), r \in Range(compare_report.rows) :
                    /\ JoinKey(l) = JoinKey(m) /\ JoinKey(r) = JoinKey(m)
                    /\ m.clicks_current = l.clicks /\ m.clicks_compare = r.clicks
                    /\ m.impressions_current = l.impressions
                    /\ m.impressions_compare = r.impressions
        /\ (/\ df_all.rows = <<Row("p1", qa, 10, 100, 10, 1)>>
            /\ compare_report.rows = <<Row("p1", qa, 4, 40, 10, 2)>>)
              => /\ Len(merged_report.rows) = 1
                 /\ merged_report.rows[1].clicks_diff = 6
                 /\ merged_report.rows[1].impressions_diff = 60

\* a current row whose key the comparison lacks was dropped, another joined
C8_Witness ==
    /\ pc = "done"
    /\ outcome = "merged_report_shown"
    /\ Len(df_all.rows) = 2
    /\ Len(merged_report.rows) = 1
    /\ merged_report.rows[1].clicks_diff = 6
    /\ merged_report.rows[1].impressions_diff = 60

(***************************************************************************)
(* Properties of Spec.                                                     *)
(***************************************************************************)
\* the positions after the with block of fetch_gsc_data_parallel
AfterPool == {"combine", "zero_clicks", "keywords", "returned", "done", "raised"}

Ok == {i \in 1..Len(futures) : futures[i].status = "ok"}

Failed == {i \in 1..Len(futures) : futures[i].status = "failed"}

\* how often x occurs in the sequence s
Occurrences(s, x) == Cardinality({k \in 1..Len(s) : s[k] = x})

\* C2: whichever chunk fetches raise, the coordinator leaves the pool without
\* an exception: every chunk was fetched, the results list holds the frames of
\* the chunks that succeeded and nothing else, and each failed chunk was
\* reported once, with its own (chunk_start, chunk_end).
C2_PartialFailureIsReported ==
    /\ pc = "raised" => outcome = "KeyError"
    /\ pc \in AfterPool =>
          /\ Len(futures) = Len(chunks)
          /\ \A i \in 1..Len(futures) :
                /\ Settled(futures[i])
                /\ futures[i].dates = chunks[i]
          /\ Len(results) = Cardinality(Ok)
          /\ \A i \in Ok :
                Occurrences(results, futures[i].result)
                    = Cardinality({j \in Ok : futures[j].result = futures[i].result})
          /\ Len(errors) = Cardinality(Failed)
          /\ \A i \in Failed : Occurrences(errors, chunks[i]) = 1

\* of three chunks the second failed; the rows of the other two were merged
C2_Witness ==
    /\ pc = "returned"
    /\ Len(chunks) = 3
    /\ Failed = {2}
    /\ errors = <<chunks[2]>>
    /\ Len(results) = 2
    /\ ~IsEmpty(results[1])
    /\ ~IsEmpty(results[2])
    /\ ~IsEmpty(df_all)

\* C3: the merge starts only when every chunk fetch has settled, so no worker
\* runs while merging, and the results list grows only by the coordinator
\* appending the frame of a future as_completed handed to it, never in a step
\* of a worker.
C3_MergeAfterAllSettled ==
    /\ [](pc \in {"combine", "zero_clicks", "keywords"} =>
              /\ Len(futures) = Len(chunks)
              /\ \A i \in 1..Len(futures) : Settled(futures[i]))
    /\ [][results' # results =>
              \/ results' = <<>>
              \/ /\ pc = "pool"
                 /\ futures' = futures
                 /\ \E i \in yielded' \ yielded :
                       /\ futures[i].status = "ok"
                       /\ results' = Append(results, futures[i].result)]_vars

\* the merge of three settled chunks, the first of which finished last
C3_Witness ==
    /\ pc = "zero_clicks"
    /\ Len(futures) = 3
    /\ Ok = {1, 2, 3}
    /\ results[3] = futures[1].result
    /\ results[1] # futures[1].result

\* C4: a chunk fetch is submitted only in a session that holds credentials,
\* and the session gets its credentials only from a token exchange that
\* succeeded; without credentials the run ends at the sign-in link.
C4_NoFetchWithoutCredentials ==
    /\ [](credentials = "none" => (futures = <<>> /\ pc \in {"main", "signin"}))
    /\ [][credentials' # credentials =>
              (pc = "main" /\ token_fetch' = "ok" /\ credentials' = "creds")]_vars

C4_Witness ==
    /\ credentials = "creds"
    /\ pc = "pool"
    /\ Len(futures) = 2
    /\ futures[2].status = "queued"

NoZeroClicks(df) == \A r \in Range(df.rows) : r.clicks # 0

\* C6: the zero-click step removes every row with clicks = 0 and no row with
\* clicks > 0, so neither the frame fetch_gsc_data_parallel returns nor the
\* frame fetch_compare_data_single returns has a zero-click row.
C6_NoZeroClickRows ==
    /\ [](pc \in {"keywords", "returned", "done", "raised"} => NoZeroClicks(df_all))
    /\ [](NoZeroClicks(compare_report))
    /\ [][pc = "zero_clicks" =>
              \A r \in Range(df_all.rows) : r.clicks > 0 => r \in Range(df_all'.rows)]_vars

\* the step dropped a zero-click row and kept another, in compare mode
C6_Witness ==
    /\ pc = "keywords"
    /\ ~NoZeroClicks(Combined(results))
    /\ ~IsEmpty(df_all)
    /\ ~IsEmpty(compare_report)

\* no (page, query) is in both frames
NoJoinableRows ==
    \A l \in Range(df_all.rows), r \in Range(compare_report.rows) :
        JoinKey(l) # JoinKey(r)

\* C9: in compare mode a run whose two periods have no joinable rows ends
\* without an error, with the message that there is no comparison data or
\* with the (empty) merged report; compare_data does not raise.
C9_CompareEndsSoftly ==
    (compare /\ pc \in {"done", "raised"} /\ NoJoinableRows) =>
        /\ pc = "done"
        /\ outcome \in {"no_comparison_data", "merged_report_shown"}

\* the row the keyword step keeps, by the masks of lines 298 and 303
KeptByKeywords(r) ==
    /\ filter_keywords # <<>> => IncludeMask(filter_keywords, r)
    /\ filter_keywords_not # <<>> =>
          \A k \in 1..Len(Split(filter_keywords_not, ",")) :
              ~RegexSearch(Strip(Split(filter_keywords_not, ",")[k]), r.query)

\* the rows of the chunks that succeeded which have clicks and pass the
\* keyword masks
ContentOfOutcomes ==
    {r \in UNION {Range(futures[i].result.rows) : i \in Ok} :
        HasClicks(r) /\ KeptByKeywords(r)}

\* C10: the set of rows of the frame fetch_gsc_data_parallel returns is fixed
\* by the chunk outcomes (which chunks succeeded, with which rows) and the
\* filters, whatever the order in which the fetches completed.
C10_ContentIndependentOfOrder ==
    pc = "returned" => Range(df_all.rows) = ContentOfOutcomes

\* the second chunk was collected before the first, with other rows
C10_Witness ==
    /\ pc = "returned"
    /\ Ok = {1, 2}
    /\ results = <<futures[2].result, futures[1].result>>
    /\ futures[1].result # futures[2].result
    /\ ~IsEmpty(futures[1].result)
    /\ ~IsEmpty(futures[2].result)
    /\ Len(df_all.rows) >= 2

(***************************************************************************)
(* SpecPool: fetch_gsc_data_parallel on date ranges of up to MaxPoolChunks *)
(* chunks, more than the pool has threads.  The coordinator is one thread  *)
(* that runs whenever it can; a pool thread takes a queued work item       *)
(* whenever one is free; a fetch that runs is taken to settle.             *)
(***************************************************************************)
MaxPoolChunks == 5

PoolReplies == {<<PipelineRows[1]>>}

\* end dates that give 1 to MaxPoolChunks full chunks from day 0
PoolEndDates == {n * chunk_size_days - 1 : n \in 1..MaxPoolChunks}

InitPool ==
    \E e \in PoolEndDates :
        /\ pc = "chunking"
        /\ SignedIn
        /\ start_date = 0
        /\ end_date = e
        /\ filter_keywords = <<>>
        /\ filter_keywords_not = <<>>
        /\ compare = FALSE
        /\ compare_report = EmptyDataFrame
        /\ current_start = 0
        /\ chunks = <<>>
        /\ futures = <<>>
        /\ yielded = {}
        /\ results = <<>>
        /\ errors = <<>>
        /\ df_all = EmptyDataFrame
        /\ NoOutput

\* the steps of the thread that called fetch_gsc_data_parallel
Coordinator ==
    \/ ChunkLoop
    \/ ChunkLoopExit
    \/ Submit
    \/ Collector
    \/ ExitPool
    \/ Combine
    \/ ZeroClickFilter
    \/ KeywordFilter

\* a pool thread takes work item i
Starts(i) == i \in 1..Len(futures) /\ WorkerStart(i)

\* the fetch of work item i returns or raises
Settles(i) ==
    /\ i \in 1..Len(futures)
    /\ \/ \E rows \in PoolReplies : WorkerReturn(i, rows)
       \/ WorkerRaise(i)

\* the indices a future can have
FutureIndices == 1..(MaxPoolChunks + MaxDay \div chunk_size_days + 1)

\* a pool thread takes the oldest queued work item
ThreadTakesWork == \E i \in FutureIndices : Starts(i)

\* a running fetch settles
FetchSettles == \E i \in FutureIndices : Settles(i)

NextFetch == Coordinator \/ ThreadTakesWork \/ FetchSettles

\* the coordinator runs while it can, an idle pool thread takes queued work,
\* and of the fetches that run one settles in the end (so, each being settled
\* once, all do)
Scheduling ==
    /\ WF_vars(Coordinator)
    /\ WF_vars(ThreadTakesWork)
    /\ WF_vars(FetchSettles)

SpecPool == InitPool /\ [][NextFetch]_vars /\ Scheduling

\* the futures before i that have settled
SettledBefore(i) == {j \in 1..(i - 1) : Settled(futures[j])}

\* C11: at most 4 chunk fetches run at any moment, whatever the number of
\* chunks; a chunk beyond the fourth starts only after a running fetch has
\* settled; and every submitted chunk is started in the end, given that each
\* running fetch settles.
C11_AtMostFourRunning ==
    /\ [](Cardinality(Running) <= 4)
    /\ [][\A i \in 1..Len(futures) :
              (futures[i].status = "queued" /\ futures'[i].status = "running" /\ i > 4)
                  => Cardinality(SettledBefore(i)) >= i - 4]_vars
    /\ <>(/\ pc # "chunking"
          /\ Len(futures) = Len(chunks)
          /\ \A i \in 1..Len(futures) : futures[i].status # "queued")

\* the fifth chunk runs beside three of the first four, the other one settled
C11_Witness ==
    /\ Len(futures) = 5
    /\ futures[5].status = "running"
    /\ Cardinality(Running) = 4

(***************************************************************************)
(* SpecRange: fetch_gsc_data_parallel on every (start_date, end_date) of   *)
(* SpecChunker, start_date > end_date among them, under the scheduling of  *)
(* SpecPool.                                                               *)
(***************************************************************************)
SpecRange == InitChunker /\ [][NextFetch]_vars /\ Scheduling

\* C12: the chunk loop ends for every (start, end); for start > end the chunk
\* list is empty, no chunk fetch is submitted, and the function returns an
\* empty table and does not raise.
C12_LoopEndsAndEmptyRange ==
    /\ <>(pc # "chunking")
    /\ [](start_date > end_date =>
              /\ chunks = <<>>
              /\ futures = <<>>
              /\ pc # "raised"
              /\ pc = "returned" => (IsEmpty(df_all) /\ df_all = EmptyDataFrame))
    /\ <>(start_date > end_date => pc = "returned")

C12_Witness ==
    /\ start_date > end_date
    /\ pc = "returned"
    /\ chunks = <<>>
    /\ IsEmpty(df_all)

=============================================================================
